---------------------------- MODULE Spec2Model ----------------------------
(***************************************************************************)
(* Student document-request service (server.js, and its HTTPS variant).    *)
(*                                                                         *)
(* Each route handler is an async function: it runs synchronously up to    *)
(* its next await, and other handlers (and the initDB retry loop) may run  *)
(* while it is suspended.  A handler is therefore modelled by one action   *)
(* per await: the *Start action is the synchronous prefix up to the first  *)
(* await, and every later action is "the awaited operation takes effect    *)
(* and the continuation runs up to the next await".                        *)
(*                                                                         *)
(* Modelled environment: the database starts empty and holds no UNIQUE or  *)
(* FOREIGN KEY constraint (the repository ships no schema; the spec's      *)
(* scenario deletes a student that has a notification row), a statement    *)
(* sent over an established connection succeeds, string comparison in      *)
(* WHERE is exact, and the request-rate limiter is never exceeded.         *)
(* Connection attempts and mail sends may fail.                            *)
(***************************************************************************)
EXTENDS Integers, Sequences, FiniteSets, TLC

\* ------------------------------------------------------------------ bounds
\* Number of handler invocations that may be in flight at once.
NumProcs == 2
\* Total number of requests received in a run.
MaxReqs == 3

Procs == 1..NumProcs

\* ------------------------------------------------------------------ inputs
\* A JSON body field is an option: <<>> when the key is absent, <<v>> when present.
\* Names are strings; "" is the empty string.
Names == {"Al", "Bo"}
NameOpts == {<<>>, <<"">>} \cup {<<n>> : n \in Names}

\* E-mail addresses are sequences of characters, so the pattern can inspect them.
EmailA == <<"a", "@", "b", ".", "c">>
EmailZ == <<"z", "@", ".", ".", "c">>
EmailInputs ==
    { EmailA, EmailZ,
      <<>>,
      <<"a", "b", ".", "c">>,
      <<"a", "@", "b">>,
      <<"a", "@", ".", "c">>,
      <<"a", "@", "b", ".">>,
      <<"@", "b", ".", "c">>,
      <<"a", " ", "@", "b", ".", "c">>,
      <<"a", "@", "b", "@", "b", ".", "c">> }
EmailOpts == {<<>>} \cup {<<e>> : e \in EmailInputs}

RequestTypes == {"transcript", "recommendation_letter"}
TypeOpts == {<<>>, <<"">>, <<"diploma">>} \cup {<<t>> : t \in RequestTypes}

\* student_id values a client may send: 0 is present in the body but falsy.
IdOpts == {<<>>} \cup {<<i>> : i \in 0..MaxReqs}

Body(n, e, t, i) == [name |-> n, email |-> e, request_type |-> t, student_id |-> i]
\* Bodies sent to POST /add-student: every well-formed one, every body with one
\* field varied over all its values, and combinations of faults in two or three
\* fields.
RegisterBodies ==
    {Body(<<n>>, <<e>>, <<t>>, <<>>) : n \in Names, e \in {EmailA, EmailZ}, t \in RequestTypes}
    \cup {Body(n, <<EmailA>>, <<"transcript">>, <<>>) : n \in NameOpts}
    \cup {Body(<<"Al">>, e, <<"transcript">>, <<>>) : e \in EmailOpts}
    \cup {Body(<<"Al">>, <<EmailA>>, t, <<>>) : t \in TypeOpts}
    \cup {Body(n, e, t, <<>>) : n \in {<<>>, <<"Bo">>},
                                e \in {<<<<"a", "@", "b">>>>, <<EmailZ>>},
                                t \in {<<>>, <<"diploma">>}}
IdBodies == {Body(<<>>, <<>>, <<>>, i) : i \in IdOpts}
EmptyBody == Body(<<>>, <<>>, <<>>, <<>>)

\* JavaScript's !x on a body field: absent (undefined), the empty string and 0
\* are falsy.  One operator per field type (names and types are strings, e-mail
\* addresses character sequences, ids numbers).
FalsyStr(opt) == opt = <<>> \/ opt[1] = ""
FalsyChars(opt) == opt = <<>> \/ opt[1] = <<>>
FalsyNum(opt) == opt = <<>> \/ opt[1] = 0

\* --------------------------------------------------------------- responses
Resp(status, text) == [status |-> status, text |-> text, rows |-> {}]
RespRows(rows) == [status |-> 200, text |-> "", rows |-> rows]
NoResp == Resp(0, "")

\* ------------------------------------------------------------- isValidEmail
\* [^\s@] : any character but white space and "@".
Plain(ch) == ch # " " /\ ch # "@"

AllPlain(s, from, to) == \A k \in from..to : Plain(s[k])

\* /^[^\s@]+@[^\s@]+\.[^\s@]+$/.test(email): a non-empty plain run, "@", a
\* non-empty plain run, ".", a non-empty plain run ("." is itself plain).
isValidEmail(email) ==
    \E i \in 1..Len(email) : \E j \in 1..Len(email) :
        /\ email[i] = "@"
        /\ email[j] = "."
        /\ 1 < i /\ i + 1 < j /\ j < Len(email)
        /\ AllPlain(email, 1, i - 1)
        /\ AllPlain(email, i + 1, j - 1)
        /\ AllPlain(email, j + 1, Len(email))

\* Validate with the request type checked before the address format.
Validate_TypeFirst(body) ==
    IF FalsyStr(body.name) \/ FalsyChars(body.email) \/ FalsyStr(body.request_type)
    THEN "Name, email, and request type are required"
    ELSE IF body.request_type[1] \notin RequestTypes
    THEN "Invalid request type."
    ELSE IF ~isValidEmail(body.email[1])
    THEN "Invalid email format"
    ELSE "ok"

\* The three early returns of app.post("/add-student"), in the code's order.
\* "ok" means the handler goes on to its try block.
Validate(body) ==
    IF FalsyStr(body.name) \/ FalsyChars(body.email) \/ FalsyStr(body.request_type)
    THEN "Name, email, and request type are required"
    ELSE IF ~isValidEmail(body.email[1])
    THEN "Invalid email format"
    ELSE IF body.request_type[1] \notin RequestTypes
    THEN "Invalid request type."
    ELSE "ok"

\* ------------------------------------------------------------------ tables
\* The database and the mail relay, as one value: W.students and
\* W.notifications are the two tables, W.nextId the AUTO_INCREMENT counter of
\* students.id, W.mails the messages handed to transporter.sendMail.
EmptyWorld == [students |-> {}, notifications |-> <<>>, nextId |-> 1, mails |-> <<>>]

\* SelectByEmailType that overlooks the rows already marked ready.
SelectByEmailType_Pending(w, email, type) ==
    {r \in w.students : r.email = email /\ r.request_type = type /\ ~r.request_ready}

\* SELECT * FROM students WHERE email = ? AND request_type = ?
SelectByEmailType(w, email, type) ==
    {r \in w.students : r.email = email /\ r.request_type = type}

\* SELECT ... FROM students WHERE id = ?
SelectById(w, id) == {r \in w.students : r.id = id}

\* INSERT INTO students (name, email, request_type, request_ready) VALUES (?, ?, ?, FALSE)
InsertStudent(w, name, email, type) ==
    [w EXCEPT !.students = @ \cup {[id |-> w.nextId, name |-> name, email |-> email,
                                    request_type |-> type, request_ready |-> FALSE]},
              !.nextId = @ + 1]

\* UpdateReady that toggles the flag instead of setting it.
UpdateReady_Toggle(w, id) ==
    [w EXCEPT !.students =
        {IF r.id = id THEN [r EXCEPT !.request_ready = ~@] ELSE r : r \in w.students}]

\* UPDATE students SET request_ready = TRUE WHERE id = ?
UpdateReady(w, id) ==
    [w EXCEPT !.students =
        {IF r.id = id THEN [r EXCEPT !.request_ready = TRUE] ELSE r : r \in w.students}]

\* The number of rows the UPDATE matches; it is in the result db.execute
\* resolves to, which the handler discards.
Matched(w, id) == Cardinality({r \in w.students : r.id = id})

\* DeleteById that spares the rows already marked ready.
DeleteById_Pending(w, id) ==
    [w EXCEPT !.students = {r \in w.students : r.id # id \/ r.request_ready}]

\* DELETE FROM students WHERE id = ?
DeleteById(w, id) == [w EXCEPT !.students = {r \in w.students : r.id # id}]

\* INSERT INTO notifications (student_id, email_sent, sent_at, request_type)
\* VALUES (?, TRUE, NOW(), ?)
InsertNotification(w, id, type) ==
    [w EXCEPT !.notifications =
        Append(@, [student_id |-> id, email_sent |-> TRUE, request_type |-> type])]

\* sendEmail: transporter.sendMail is attempted; ok is whether it resolved
\* (sendEmail returns true) or threw (false).
sendEmail(w, email, subject, ok) ==
    [w EXCEPT !.mails = Append(@, [to |-> email, subject |-> subject, ok |-> ok])]

\* request_type.replace("_", " "): the first underscore becomes a space.
ReplaceUnderscore(type) ==
    IF type = "recommendation_letter" THEN "recommendation letter" ELSE type

ReadySubject(type) == "Your " \o ReplaceUnderscore(type) \o " is Ready"

\* ------------------------------------------------------------------- state
VARIABLES
    db,             \* the module-level handle: "undefined" until initDB succeeds
    dbUp,           \* environment: whether the database accepts connections now
    connecting,     \* number of mysql.createConnection calls in flight
    timers,         \* number of pending setTimeout(initDB, 5000) timers
    students,       \* table students
    notifications,  \* table notifications, in insertion order
    nextId,         \* AUTO_INCREMENT of students.id
    mails,          \* messages handed to the mail transport, in order
    pc,             \* per handler invocation: the await it is suspended at
    req,            \* per handler invocation: route and JSON body
    loc,            \* per handler invocation: <<studentResult[0]>> once selected, then
                    \* <<studentResult[0], rows matched by its UPDATE>>
    pre,            \* history: tables and mails as they were when the call began
    resp,           \* the response sent most recently
    nreq            \* requests received so far

conn == <<db, dbUp, connecting, timers>>
world == <<students, notifications, nextId, mails>>
calls == <<pc, req, loc, pre, resp, nreq>>
vars == <<db, dbUp, connecting, timers, students, notifications, nextId, mails,
          pc, req, loc, pre, resp, nreq>>

World == [students |-> students, notifications |-> notifications,
          nextId |-> nextId, mails |-> mails]

SetWorld(w) ==
    /\ students' = w.students
    /\ notifications' = w.notifications
    /\ nextId' = w.nextId
    /\ mails' = w.mails

Init ==
    /\ db = "undefined"
    /\ dbUp \in BOOLEAN
    /\ connecting = 1
    /\ timers = 0
    /\ students = {}
    /\ notifications = <<>>
    /\ nextId = 1
    /\ mails = <<>>
    /\ pc = [p \in Procs |-> "idle"]
    /\ req = [p \in Procs |-> [route |-> "none", body |-> EmptyBody]]
    /\ loc = [p \in Procs |-> <<>>]
    /\ pre = [p \in Procs |-> EmptyWorld]
    /\ resp = NoResp
    /\ nreq = 0

\* ------------------------------------------------------------------ initDB
\* db = await mysql.createConnection(...) resolves.
ConnectOk ==
    /\ connecting > 0
    /\ dbUp
    /\ db' = "conn"
    /\ connecting' = connecting - 1
    /\ UNCHANGED <<dbUp, timers, world, calls>>

\* ConnectFail that logs the error and schedules no retry.
ConnectFail_NoRetry ==
    /\ connecting > 0
    /\ ~dbUp
    /\ connecting' = connecting - 1
    /\ UNCHANGED <<db, dbUp, timers, world, calls>>

\* createConnection rejects: catch (err) { setTimeout(initDB, 5000) }.
ConnectFail ==
    /\ connecting > 0
    /\ ~dbUp
    /\ connecting' = connecting - 1
    /\ timers' = timers + 1
    /\ UNCHANGED <<db, dbUp, world, calls>>

\* The 5 second timer fires and calls initDB, which starts a new attempt.
RetryTimer ==
    /\ timers > 0
    /\ timers' = timers - 1
    /\ connecting' = connecting + 1
    /\ UNCHANGED <<db, dbUp, world, calls>>

\* Environment: the database server goes down or comes up (observed only by
\* connection attempts, so followed only until the handle is set).
DbToggle ==
    /\ db = "undefined"
    /\ dbUp' = ~dbUp
    /\ UNCHANGED <<db, connecting, timers, world, calls>>

\* ------------------------------------------------------- handler plumbing
Quiet == \A q \in Procs : pc[q] = "idle"

\* Express calls the route handler of a newly received request.
Receive(p) ==
    /\ pc[p] = "idle"
    /\ nreq < MaxReqs
    /\ nreq' = nreq + 1

NoReq == [route |-> "none", body |-> EmptyBody]

\* res.status(..).json(..): the response is sent and the handler returns; its
\* frame (req.body, its locals) is gone.
Finish(p, r) ==
    /\ resp' = r
    /\ pc' = [pc EXCEPT ![p] = "idle"]
    /\ req' = [req EXCEPT ![p] = NoReq]
    /\ loc' = [loc EXCEPT ![p] = <<>>]
    /\ pre' = [pre EXCEPT ![p] = EmptyWorld]

\* The handler suspends at the await named label; nothing is sent yet.
Suspend(p, label) ==
    /\ pc' = [pc EXCEPT ![p] = label]
    /\ UNCHANGED resp

\* The synchronous prefix of a handler whose first await is a db.execute:
\* early is the response of an early return ("" when none applies); with db
\* still undefined, db.execute throws a TypeError inside the try block and the
\* catch block answers 500 with caught.
StartQuery(p, route, body, early, caught, label) ==
    /\ Receive(p)
    /\ IF early # NoResp THEN Finish(p, early)
       ELSE IF db = "undefined" THEN Finish(p, Resp(500, caught))
       ELSE /\ req' = [req EXCEPT ![p] = [route |-> route, body |-> body]]
            /\ pc' = [pc EXCEPT ![p] = label]
            /\ pre' = [pre EXCEPT ![p] = World]
            /\ UNCHANGED <<resp, loc>>
    /\ UNCHANGED <<conn, world>>

\* ------------------------------------------------ app.post("/add-student")
\* Validate, tabulated over the bodies the clients send.
Validation == [b \in RegisterBodies |-> Validate(b)]

RegisterStart(p, body) ==
    /\ StartQuery(p, "add-student", body,
                  IF Validation[body] # "ok" THEN Resp(400, Validation[body]) ELSE NoResp,
                  "Server error", "select")

\* const [existing] = await db.execute("SELECT ..."); if (existing.length > 0) return 400
RegSelect(p) ==
    /\ pc[p] = "select"
    /\ LET b == req[p].body
           existing == SelectByEmailType(World, b.email[1], b.request_type[1])
       IN IF existing # {}
          THEN Finish(p, Resp(400, "Request already exists for this student."))
          ELSE Suspend(p, "insert") /\ UNCHANGED <<req, loc, pre>>
    /\ UNCHANGED <<conn, world, nreq>>

\* await db.execute("INSERT INTO students ...")
RegInsert(p) ==
    /\ pc[p] = "insert"
    /\ LET b == req[p].body
       IN SetWorld(InsertStudent(World, b.name[1], b.email[1], b.request_type[1]))
    /\ Suspend(p, "mail")
    /\ UNCHANGED <<conn, req, loc, pre, nreq>>

\* RegMail that takes the inserted row back when the send fails.
RegMail_Rollback(p, ok) ==
    /\ pc[p] = "mail"
    /\ LET b == req[p].body
           w == sendEmail(World, b.email[1], "Application Received", ok)
       IN SetWorld(IF ok THEN w
                   ELSE [w EXCEPT !.students =
                           @ \ SelectByEmailType(w, b.email[1], b.request_type[1])])
    /\ Finish(p, IF ok THEN Resp(201, "Student added and confirmation email sent!")
                       ELSE Resp(500, "Email service unavailable."))
    /\ UNCHANGED <<conn, nreq>>

\* const emailSent = await sendEmail(...); if (!emailSent) return 500; res.status(201)
RegMail(p, ok) ==
    /\ pc[p] = "mail"
    /\ SetWorld(sendEmail(World, req[p].body.email[1], "Application Received", ok))
    /\ Finish(p, IF ok THEN Resp(201, "Student added and confirmation email sent!")
                       ELSE Resp(500, "Email service unavailable."))
    /\ UNCHANGED <<conn, nreq>>

\* ---------------------------------------------------- app.get("/students")
ListStart(p) ==
    /\ StartQuery(p, "students", EmptyBody, NoResp, "Failed to fetch students", "l_select")

\* const [results] = await db.execute("SELECT * FROM students"); res.json(results)
ListSelect(p) ==
    /\ pc[p] = "l_select"
    /\ Finish(p, RespRows(students))
    /\ UNCHANGED <<conn, world, nreq>>

\* -------------------------------------------------- app.post("/mark-ready")
MarkStart(p, body) ==
    /\ StartQuery(p, "mark-ready", body,
                  IF FalsyNum(body.student_id) THEN Resp(400, "Student ID is required")
                     ELSE NoResp,
                  "Server error", "m_select")

\* const [studentResult] = await db.execute("SELECT email, name, request_type ...");
\* if (studentResult.length === 0) return 404
MarkSelect(p) ==
    /\ pc[p] = "m_select"
    /\ LET studentResult == SelectById(World, req[p].body.student_id[1])
       IN IF studentResult = {}
          THEN Finish(p, Resp(404, "Student not found"))
          ELSE /\ Suspend(p, "m_update")
               /\ loc' = [loc EXCEPT ![p] = <<CHOOSE r \in studentResult : TRUE>>]
               /\ UNCHANGED <<req, pre>>
    /\ UNCHANGED <<conn, world, nreq>>

\* await db.execute("UPDATE students SET request_ready = TRUE WHERE id = ?");
\* the result is not looked at.
MarkUpdate(p) ==
    /\ pc[p] = "m_update"
    /\ SetWorld(UpdateReady(World, req[p].body.student_id[1]))
    /\ loc' = [loc EXCEPT ![p] = <<loc[p][1], Matched(World, req[p].body.student_id[1])>>]
    /\ Suspend(p, "m_mail")
    /\ UNCHANGED <<conn, req, pre, nreq>>

\* const emailSent = await sendEmail(email, subject, text);
\* if (!emailSent) return 500
MarkMail(p, ok) ==
    /\ pc[p] = "m_mail"
    /\ SetWorld(sendEmail(World, loc[p][1].email, ReadySubject(loc[p][1].request_type), ok))
    /\ IF ok THEN Suspend(p, "m_note") /\ UNCHANGED <<req, loc, pre>>
             ELSE Finish(p, Resp(500, "Failed to send email."))
    /\ UNCHANGED <<conn, nreq>>

\* await db.execute("INSERT INTO notifications ..."); res.json({ message })
MarkNote(p) ==
    /\ pc[p] = "m_note"
    /\ SetWorld(InsertNotification(World, req[p].body.student_id[1], loc[p][1].request_type))
    /\ Finish(p, Resp(200, "Request marked as ready, email sent, and notification logged!"))
    /\ UNCHANGED <<conn, nreq>>

\* --------------------------------------------- app.delete("/delete-student")
DeleteStart(p, body) ==
    /\ StartQuery(p, "delete-student", body,
                  IF FalsyNum(body.student_id) THEN Resp(400, "Student ID is required")
                     ELSE NoResp,
                  "Server error while deleting student", "d_select")

\* DeleteSelect without the studentResult.length check.
DeleteSelect_NoCheck(p) ==
    /\ pc[p] = "d_select"
    /\ LET studentResult == SelectById(World, req[p].body.student_id[1])
       IN /\ Suspend(p, "d_delete")
          /\ loc' = [loc EXCEPT ![p] = IF studentResult = {} THEN <<>>
                                       ELSE <<CHOOSE r \in studentResult : TRUE>>]
          /\ UNCHANGED <<req, pre>>
    /\ UNCHANGED <<conn, world, nreq>>

\* const [studentResult] = await db.execute("SELECT * FROM students WHERE id = ?");
\* if (studentResult.length === 0) return 404
DeleteSelect(p) ==
    /\ pc[p] = "d_select"
    /\ LET studentResult == SelectById(World, req[p].body.student_id[1])
       IN IF studentResult = {}
          THEN Finish(p, Resp(404, "Student not found"))
          ELSE /\ Suspend(p, "d_delete")
               /\ loc' = [loc EXCEPT ![p] = <<CHOOSE r \in studentResult : TRUE>>]
               /\ UNCHANGED <<req, pre>>
    /\ UNCHANGED <<conn, world, nreq>>

\* await db.execute("DELETE FROM students WHERE id = ?"); console.log(...); res.json(...)
DeleteDelete(p) ==
    /\ pc[p] = "d_delete"
    /\ SetWorld(DeleteById(World, req[p].body.student_id[1]))
    /\ Finish(p, Resp(200, "Student deleted successfully!"))
    /\ UNCHANGED <<conn, nreq>>

\* ------------------------------------------------------------- app.get("/")
Root(p) ==
    /\ Receive(p)
    /\ Finish(p, Resp(200, "Hello! Your HTTPS setup is working"))
    /\ UNCHANGED <<conn, world>>

\* ------------------------------------------------- one request, start to end
\* What a handler does to the tables and mails w, and what it answers, when no
\* other handler runs meanwhile: the composition of its steps above.  h is the
\* database handle, ok the outcome of the mail send (if one is attempted).
Outcome(w, r) == [w |-> w, r |-> r]

RunRegister(h, w, body, ok) ==
    IF Validate(body) # "ok" THEN Outcome(w, Resp(400, Validate(body)))
    ELSE IF h = "undefined" THEN Outcome(w, Resp(500, "Server error"))
    ELSE IF SelectByEmailType(w, body.email[1], body.request_type[1]) # {}
    THEN Outcome(w, Resp(400, "Request already exists for this student."))
    ELSE LET w1 == InsertStudent(w, body.name[1], body.email[1], body.request_type[1])
             w2 == sendEmail(w1, body.email[1], "Application Received", ok)
         IN Outcome(w2, IF ok THEN Resp(201, "Student added and confirmation email sent!")
                              ELSE Resp(500, "Email service unavailable."))

RunList(h, w) ==
    IF h = "undefined" THEN Outcome(w, Resp(500, "Failed to fetch students"))
    ELSE Outcome(w, RespRows(w.students))

RunMarkReady(h, w, body, ok) ==
    IF FalsyNum(body.student_id) THEN Outcome(w, Resp(400, "Student ID is required"))
    ELSE IF h = "undefined" THEN Outcome(w, Resp(500, "Server error"))
    ELSE IF SelectById(w, body.student_id[1]) = {}
    THEN Outcome(w, Resp(404, "Student not found"))
    ELSE LET row == CHOOSE r \in SelectById(w, body.student_id[1]) : TRUE
             w1 == UpdateReady(w, body.student_id[1])
             w2 == sendEmail(w1, row.email, ReadySubject(row.request_type), ok)
         IN IF ~ok THEN Outcome(w2, Resp(500, "Failed to send email."))
            ELSE Outcome(InsertNotification(w2, body.student_id[1], row.request_type),
                         Resp(200, "Request marked as ready, email sent, and notification logged!"))

RunDelete(h, w, body) ==
    IF FalsyNum(body.student_id) THEN Outcome(w, Resp(400, "Student ID is required"))
    ELSE IF h = "undefined" THEN Outcome(w, Resp(500, "Server error while deleting student"))
    ELSE IF SelectById(w, body.student_id[1]) = {}
    THEN Outcome(w, Resp(404, "Student not found"))
    ELSE Outcome(DeleteById(w, body.student_id[1]), Resp(200, "Student deleted successfully!"))

RunRoot(w) == Outcome(w, Resp(200, "Hello! Your HTTPS setup is working"))

\* The routes each server registers on its Express app.
HttpRoutes == {"add-student", "students", "mark-ready", "delete-student", "/"}
HttpsRoutes == {"add-student", "students", "/"}

\* Express answers a request that matches no registered route with 404
\* "Cannot <METHOD> <path>".
NoRoute(route) == Resp(404, "Cannot " \o route)

\* A server with the given routes handles one request.
Serve(routes, h, w, route, body, ok) ==
    IF route \notin routes THEN Outcome(w, NoRoute(route))
    ELSE CASE route = "add-student" -> RunRegister(h, w, body, ok)
           [] route = "students" -> RunList(h, w)
           [] route = "mark-ready" -> RunMarkReady(h, w, body, ok)
           [] route = "delete-student" -> RunDelete(h, w, body)
           [] OTHER -> RunRoot(w)

\* ----------------------------------------------------------- specifications
\* A request is received: the synchronous prefix of its handler runs.
Start(p) ==
    \/ \E b \in RegisterBodies : RegisterStart(p, b)
    \/ \E b \in IdBodies : MarkStart(p, b)
    \/ \E b \in IdBodies : DeleteStart(p, b)
    \/ ListStart(p)
    \/ Root(p)

\* A suspended handler resumes.
Resume(p) ==
    \/ RegSelect(p)
    \/ RegInsert(p)
    \/ \E ok \in BOOLEAN : RegMail(p, ok)
    \/ ListSelect(p)
    \/ MarkSelect(p)
    \/ MarkUpdate(p)
    \/ \E ok \in BOOLEAN : MarkMail(p, ok)
    \/ MarkNote(p)
    \/ DeleteSelect(p)
    \/ DeleteDelete(p)

Connection == ConnectOk \/ ConnectFail \/ RetryTimer \/ DbToggle

\* Handlers interleave at every await.
Next ==
    \/ Connection
    \/ \E p \in Procs : Start(p)
    \/ \E p \in Procs : Resume(p)

Spec == Init /\ [][Next]_vars

\* Requests handled one after another: a request is received only when no
\* handler is suspended.
SeqNext ==
    \/ Connection
    \/ \E p \in Procs : Quiet /\ Start(p)
    \/ \E p \in Procs : Resume(p)

SeqSpec == Init /\ [][SeqNext]_vars

\* The event loop runs every ready continuation and every due timer, and an
\* awaited connection attempt settles.
LiveSpec ==
    /\ Init /\ [][SeqNext]_vars
    /\ WF_vars(ConnectOk) /\ WF_vars(ConnectFail) /\ WF_vars(RetryTimer)

\* ------------------------------------------------------------------ claims
\* Vocabulary of the claims.
HasPair(rows, body) ==
    \E r \in rows : r.email = body.email[1] /\ r.request_type = body.request_type[1]

HasId(rows, id) == \E r \in rows : r.id = id

\* Invocation p takes a step.
Steps(p) == pc'[p] # pc[p]

\* Invocation p, suspended so far, sends its response in this step.
Ends(p) == pc[p] # "idle" /\ pc'[p] = "idle"

Answers(p, status, text) == Ends(p) /\ resp' = Resp(status, text)

Dup400 == Resp(400, "Request already exists for this student.")

\* A request is received in this step.
Received == nreq' # nreq

\* The invocation that receives the request of this step: the one that is
\* suspended by it or, when the handler returns at once (any idle invocation
\* then gives the same step), the first idle one.
Receiver ==
    IF \E q \in Procs : Steps(q) THEN CHOOSE q \in Procs : Steps(q)
    ELSE CHOOSE q \in Procs : pc[q] = "idle"

\* Bodies with valid fields: name, e-mail address and request type present and
\* not empty, a well-formed address, one of the two request types.
WellFormedBodies ==
    {Body(<<n>>, <<e>>, <<t>>, <<>>) : n \in Names, e \in {EmailA, EmailZ}, t \in RequestTypes}

\* ms is before plus one message to the address to, with outcome ok.
OneMoreMail(before, ms, to, ok) ==
    /\ Len(ms) = Len(before) + 1
    /\ SubSeq(ms, 1, Len(before)) = before
    /\ ms[Len(ms)].to = to
    /\ ms[Len(ms)].ok = ok

\* C1: in every reachable state the students table holds at most one row per
\* (email, request_type) pair, also when Register handlers interleave.
C1_OneRowPerPair ==
    \A r1 \in students : \A r2 \in students :
        (r1.email = r2.email /\ r1.request_type = r2.request_type) => r1 = r2

\* C9: a MarkReady call appends its notification record, and answers 200, only
\* after its own UPDATE has set a row with that id to ready, under every
\* interleaving with Register and Delete handlers.
C9_NotificationOnlyIfMarked ==
    [][\A p \in Procs :
          (pc[p] = "m_note" /\ Steps(p)) => loc[p][2] >= 1]_vars

\* C2: with requests handled one after another, a Register with valid fields
\* whose (email, request_type) pair already has a row is answered 400 "Request
\* already exists for this student.", and tables and mails stay as they were,
\* whatever the name and whatever the existing row's request_ready.
C2_DuplicateRejected ==
    [][\A p \in Procs :
          /\ Received =>
                \A b \in WellFormedBodies :
                    (HasPair(students, b) /\ RegisterStart(p, b))
                        => (pc'[p] = "select" /\ UNCHANGED world)
          /\ (Steps(p) /\ req[p].route = "add-student" /\ HasPair(pre[p].students, req[p].body))
                    => (Answers(p, 400, "Request already exists for this student.")
                        /\ World' = pre[p])]_vars

\* A duplicate was just rejected although the only row, the one holding the
\* pair, is already ready.
C2_Witness ==
    /\ resp = Dup400
    /\ \E r \in students : students = {r} /\ r.request_ready /\ r.name = "Bo"

\* C3: with requests handled one after another, every MarkReady on an id that
\* has a row, ready or not, leaves that row ready and the other rows as they
\* were; if the mail is sent the answer is 200 and the call has appended exactly
\* one notification (that id, email_sent TRUE, the row's request_type); if the
\* send fails the answer is 500 "Failed to send email." and no notification is
\* appended.
C3_MarkReady ==
    [][\A p \in Procs :
          /\ Received =>
                \A b \in IdBodies :
                    (b.student_id # <<>> /\ HasId(students, b.student_id[1]) /\ MarkStart(p, b))
                        => (pc'[p] = "m_select" /\ UNCHANGED world)
          /\ (Steps(p) /\ req[p].route = "mark-ready"
                /\ HasId(pre[p].students, req[p].body.student_id[1])) =>
                LET id == req[p].body.student_id[1]
                    row == CHOOSE r \in pre[p].students : r.id = id
                    marked == (pre[p].students \ {row})
                                  \cup {[row EXCEPT !.request_ready = TRUE]}
                IN IF pc'[p] # "idle"
                   THEN notifications' = pre[p].notifications
                   ELSE /\ students' = marked
                        /\ nextId' = pre[p].nextId
                        /\ \/ /\ resp' = Resp(200, "Request marked as ready, email sent, and notification logged!")
                              /\ OneMoreMail(pre[p].mails, mails', row.email, TRUE)
                              /\ notifications' = Append(pre[p].notifications,
                                    [student_id |-> id, email_sent |-> TRUE,
                                     request_type |-> row.request_type])
                           \/ /\ resp' = Resp(500, "Failed to send email.")
                              /\ OneMoreMail(pre[p].mails, mails', row.email, FALSE)
                              /\ notifications' = pre[p].notifications]_vars

\* A MarkReady on a row that was already ready (it has a notification) has just
\* failed to send its mail: the row is ready and no second notification exists.
C3_Witness ==
    /\ resp = Resp(500, "Failed to send email.")
    /\ Len(notifications) = 1
    /\ \E r \in students : r.id = notifications[1].student_id /\ r.request_ready

\* What C4 says of the steps of a Register with valid fields and a new pair;
\* guarded: only of calls received with the database handle set.
C4Body(guarded) ==
    \A p \in Procs :
        /\ Received =>
              \A b \in WellFormedBodies :
                  ((guarded => db = "conn") /\ ~HasPair(students, b) /\ RegisterStart(p, b))
                      => (pc'[p] = "select" /\ UNCHANGED world)
        /\ (Steps(p) /\ req[p].route = "add-student"
              /\ ~HasPair(pre[p].students, req[p].body)) =>
              LET b == req[p].body
                  row == [id |-> pre[p].nextId, name |-> b.name[1], email |-> b.email[1],
                          request_type |-> b.request_type[1], request_ready |-> FALSE]
                  inserted == /\ students' = pre[p].students \cup {row}
                              /\ row \notin pre[p].students
                              /\ nextId' = pre[p].nextId + 1
                              /\ notifications' = pre[p].notifications
              IN CASE pc'[p] = "insert" -> World' = pre[p]
                   [] pc'[p] = "mail" -> inserted /\ mails' = pre[p].mails
                   [] pc'[p] = "idle" ->
                        /\ inserted
                        /\ \/ /\ resp' = Resp(201, "Student added and confirmation email sent!")
                              /\ OneMoreMail(pre[p].mails, mails', b.email[1], TRUE)
                           \/ /\ resp' = Resp(500, "Email service unavailable.")
                              /\ OneMoreMail(pre[p].mails, mails', b.email[1], FALSE)
                   [] OTHER -> FALSE

\* C4 as amended: with requests handled one after another and the database
\* handle set, a Register with valid fields and a new pair inserts exactly one
\* row, request_ready FALSE, before the mail is attempted; then the mail is
\* attempted once, the row stays whether or not the send succeeds, and the answer
\* is 201 on success and 500 "Email service unavailable." on failure.
C4_RegisterInsertsThenMails == [][C4Body(TRUE)]_vars

\* C4 as stated: the same of every Register with valid fields and a new pair,
\* whether or not the database handle is set.
C4_Original == [][C4Body(FALSE)]_vars

\* The confirmation mail has just failed and the inserted row is in the table.
C4_Witness ==
    /\ resp = Resp(500, "Email service unavailable.")
    /\ Len(mails) = 1 /\ ~mails[1].ok
    /\ \E r \in students : students = {r} /\ r.email = mails[1].to /\ ~r.request_ready

\* What C5 says of the steps of a MarkReady or Delete whose student_id is
\* present and matches no row; guarded: the answer is claimed only of calls
\* received with the database handle set and a student_id other than 0.
C5Body(guarded) ==
    \A p \in Procs :
        /\ Received =>
              \A b \in IdBodies :
                  (b.student_id # <<>> /\ ~HasId(students, b.student_id[1])
                     /\ (MarkStart(p, b) \/ DeleteStart(p, b)))
                      => /\ UNCHANGED world
                         /\ (guarded => (db = "conn" /\ b.student_id[1] # 0))
                               => pc'[p] \in {"m_select", "d_select"}
        /\ (Steps(p) /\ req[p].route \in {"mark-ready", "delete-student"}
              /\ ~HasId(pre[p].students, req[p].body.student_id[1]))
              => (Answers(p, 404, "Student not found") /\ World' = pre[p])

\* C5 as amended: with requests handled one after another and the database
\* handle set, MarkReady and Delete with a truthy student_id (present and not 0)
\* that matches no row answer 404 "Student not found"; whatever the handle and
\* the id, a call whose id matches no row changes no table and sends no mail.
C5_UnknownIdNotFound == [][C5Body(TRUE)]_vars

\* C5 as stated: the same of every present student_id, 0 included, whether or
\* not the database handle is set.
C5_Original == [][C5Body(FALSE)]_vars

\* An unknown id has just been answered 404 while the tables hold rows.
C5_Witness ==
    /\ resp = Resp(404, "Student not found")
    /\ students # {}
    /\ notifications # <<>>

\* C6: with requests handled one after another, a Delete on an id that has a
\* row, ready or not, answers 200 and removes exactly that row: the other rows,
\* the notifications (those of the deleted id too) and the mails stay as they
\* were, the id never comes back, and List answers with the table's rows.
C6_DeleteRemovesRow ==
    [][/\ \A p \in Procs :
            /\ Received =>
                  \A b \in IdBodies :
                      (b.student_id # <<>> /\ HasId(students, b.student_id[1])
                         /\ DeleteStart(p, b))
                          => (pc'[p] = "d_select" /\ UNCHANGED world)
            /\ (Steps(p) /\ req[p].route = "delete-student"
                  /\ HasId(pre[p].students, req[p].body.student_id[1])) =>
                  LET id == req[p].body.student_id[1]
                  IN IF pc'[p] # "idle"
                     THEN World' = pre[p]
                     ELSE /\ resp' = Resp(200, "Student deleted successfully!")
                          /\ students' = {r \in pre[p].students : r.id # id}
                          /\ ~HasId(students', id)
                          /\ notifications' = pre[p].notifications
                          /\ mails' = pre[p].mails
                          /\ nextId' = pre[p].nextId
            /\ (Steps(p) /\ req[p].route = "students")
                  => resp' = RespRows(students)
       /\ \A id \in 1..(nextId - 1) : ~HasId(students, id) => ~HasId(students', id)]_vars

\* A ready row that has a notification has just been deleted; the notification
\* is still there.
C6_Witness ==
    /\ resp = Resp(200, "Student deleted successfully!")
    /\ Len(notifications) = 1
    /\ ~HasId(students, notifications[1].student_id)

\* The pattern ^[^\s@]+@[^\s@]+\.[^\s@]+$ read as an automaton over the
\* characters: 0 start, 1 in the local part, 2 after "@", 3 in the domain,
\* 4 after a ".", 5 in the last part (accepting).
PatternMove(q, ch, t) ==
    \/ ch \notin {" ", "@"} /\ <<q, t>> \in {<<0, 1>>, <<1, 1>>, <<2, 3>>, <<3, 3>>, <<4, 5>>, <<5, 5>>}
    \/ ch = "@" /\ <<q, t>> = <<1, 2>>
    \/ ch = "." /\ <<q, t>> = <<3, 4>>

RECURSIVE PatternRun(_, _, _)
PatternRun(s, k, qs) ==
    IF k > Len(s) THEN qs
    ELSE PatternRun(s, k + 1, {t \in 0..5 : \E q \in qs : PatternMove(q, s[k], t)})

MatchesPattern(s) == 5 \in PatternRun(s, 1, {0})

\* The answer the claim gives to a Register body: the first failing check in
\* the order (missing or empty field, address pattern, request type), or "ok".
Expected(b) ==
    IF \/ b.name \in {<<>>, <<"">>}
       \/ b.email \in {<<>>, <<<<>>>>}
       \/ b.request_type \in {<<>>, <<"">>}
    THEN "Name, email, and request type are required"
    ELSE IF ~MatchesPattern(b.email[1]) THEN "Invalid email format"
    ELSE IF b.request_type[1] \notin {"transcript", "recommendation_letter"}
    THEN "Invalid request type."
    ELSE "ok"

ExpectedAnswer == [b \in RegisterBodies |-> Expected(b)]

\* C7: Register validates first and in a fixed order: a missing or empty field
\* is answered 400 "Name, email, and request type are required", else an address
\* not matching the pattern 400 "Invalid email format", else an unknown request
\* type 400 "Invalid request type."; these three touch no table and send no mail,
\* and every other body goes on to the try block whose first statement is the
\* duplicate check (the SELECT is awaited, or, with the handle still undefined,
\* the call of db.execute throws there and the catch block answers 500).
C7_ValidationOrder ==
    [][Received =>
          \A p \in {Receiver} : \A b \in RegisterBodies :
              RegisterStart(p, b) =>
                  /\ UNCHANGED world
                  /\ IF ExpectedAnswer[b] # "ok"
                     THEN pc' = pc /\ resp' = Resp(400, ExpectedAnswer[b])
                     ELSE \/ pc'[p] = "select"
                          \/ /\ db = "undefined"
                             /\ pc' = pc
                             /\ resp' = Resp(500, "Server error")]_vars

\* A body was just answered "Invalid email format" with rows in the table.
C7_Witness ==
    /\ resp = Resp(400, "Invalid email format")
    /\ students # {}

\* C8: the HTTPS variant answers every request as the HTTP server does and
\* leaves the same tables: from every reachable state, for every route of the
\* HTTP server, every body and every mail outcome.
C8_SameRoutesSameBehaviour ==
    \A route \in HttpRoutes : \A ok \in BOOLEAN :
        \A b \in (IF route = "add-student" THEN RegisterBodies
                   ELSE IF route \in {"mark-ready", "delete-student"} THEN IdBodies
                   ELSE {EmptyBody}) :
            Serve(HttpsRoutes, db, World, route, b, ok) = Serve(HttpRoutes, db, World, route, b, ok)

\* Every call that ends, with no other handler running meanwhile, has done
\* what Serve says of the HTTP server, for one of the two mail outcomes.
ServeAgreesWithSteps ==
    [][\A p \in Procs :
          (Steps(p) /\ pc'[p] = "idle") =>
              \E ok \in BOOLEAN :
                  Outcome(World', resp') =
                      Serve(HttpRoutes, "conn", pre[p], req[p].route, req[p].body, ok)]_vars

\* C10: while the handle is not set exactly one connection attempt or retry
\* timer is outstanding; every failed attempt schedules exactly one timer and
\* every timer starts exactly one attempt; once the handle is set nothing is
\* outstanding; if the database from some point on accepts connections the
\* handle is eventually set; and a data-route request (add-student with valid
\* fields, students, mark-ready or delete-student with an id) handled while the
\* handle is not set is answered 500 and changes nothing.
C10_RetryLoop ==
    /\ [](IF db = "undefined" THEN connecting + timers = 1
                              ELSE connecting = 0 /\ timers = 0)
    /\ [][/\ (connecting' < connecting /\ db' = "undefined")
               => (connecting' = connecting - 1 /\ timers' = timers + 1)
          /\ (timers' < timers)
               => (timers' = timers - 1 /\ connecting' = connecting + 1)
          /\ (db = "conn") => (db' = "conn" /\ connecting' = 0 /\ timers' = 0)
          /\ (Received /\ db = "undefined") =>
               \A p \in Procs :
                   \/ \E b \in WellFormedBodies : RegisterStart(p, b)
                   \/ ListStart(p)
                   \/ \E b \in IdBodies :
                         ~FalsyNum(b.student_id) /\ (MarkStart(p, b) \/ DeleteStart(p, b))
                   => (resp'.status = 500 /\ pc'[p] = "idle"
                       /\ UNCHANGED world)]_vars
    /\ (<>[]dbUp) => <>(db = "conn")

\* A connection attempt has failed and its retry timer is pending, and a
\* List request made meanwhile was answered 500.
C10_Witness ==
    /\ db = "undefined"
    /\ timers = 1
    /\ resp = Resp(500, "Failed to fetch students")

============================================================================
